---- MODULE Spec2Model ----
(***************************************************************************)
(* Storefront add-on price reconciliation of shopify-product-addons-app.   *)
(*                                                                         *)
(* Modelled: the product page handler (public/modules/product-page.js),    *)
(* the selection store (public/modules/addon-storage.js) and the cart page *)
(* reconciler (public/modules/cart-page.js), running in browser tabs that  *)
(* share one Shopify cart and each own a sessionStorage.                   *)
(*                                                                         *)
(* Money is counted in mills (1/1000 pound): 5.00 is 5000, the surrogate   *)
(* unit price 0.01 is 10. Times are milliseconds.                          *)
(***************************************************************************)
EXTENDS Integers, Sequences, FiniteSets, TLC

\* ------------------------------------------------------------------------
\* Program constants
\* ------------------------------------------------------------------------
HIDDEN_PRODUCT_ID == "12237829308756"

HIDDEN_VARIANT_ID == "52557455032660"

HIDDEN_PRODUCT_PRICE == 10

RecentWindowMs == 5000

\* maxAge of clearOldAddons: 24 * 60 * 60 * 1000 ms
MAX_AGE == 86400000

\* ------------------------------------------------------------------------
\* Bounds of the model
\* ------------------------------------------------------------------------
MaxNow == 5000

TickMs == 2500

MaxLineQty == 1

MaxCartLines == 3

\* add-on records created in the catalogue
MaxAddons == 2

\* hidden inputs in the add-to-cart form of a product page
MaxInputs == 3

Tabs == {"A", "B"}

\* tabs in which the shopper also browses product pages
ProductTabs == {"A"}

Undefined == "undefined"

NoMarker == -1

Outcomes == {"ok", "status", "throw"}

\* ------------------------------------------------------------------------
\* Catalogue seen by the storefront: one variant per product, and the
\* add-on controls rendered on a product page.
\* ------------------------------------------------------------------------
Products == {"P1", "P2"}

VariantOf(p) == IF p = "P1" THEN "V1" ELSE "V2"

\* an add-on definition as the product page receives it from the catalogue;
\* options are the {value, price} choices of a dropdown
Control(n, ty, p, req, opts) ==
  [name |-> n, type |-> ty, price |-> p, required |-> req, options |-> opts]

\* add-on controls rendered on the page of product p: id -> definition
ControlsOf(p) ==
  IF p = "P1"
    THEN [a \in {1, 2} |->
            IF a = 1 THEN Control("Gift Wrap", "checkbox", 5000, FALSE, <<>>)
                     ELSE Control("Engraving", "checkbox", 3500, FALSE, <<>>)]
    ELSE [a \in {3, 4, 5} |->
            IF a = 3 THEN Control("Ribbon", "checkbox", 2450, FALSE, <<>>)
            ELSE IF a = 4
              THEN Control("Size", "dropdown", 0, FALSE,
                           <<[value |-> "L", price |-> 1500],
                             [value |-> "XL", price |-> 0]>>)
              ELSE Control("Warranty", "checkbox", 2000, TRUE, <<>>)]

\* ------------------------------------------------------------------------
\* Helpers on sequences
\* ------------------------------------------------------------------------
RECURSIVE SumPrices(_)
SumPrices(s) == IF s = <<>> THEN 0 ELSE s[1].price + SumPrices(Tail(s))

MinOf(S) == CHOOSE x \in S : \A y \in S : x <= y

MaxOf(S) == CHOOSE x \in S : \A y \in S : y <= x

\* ------------------------------------------------------------------------
\* Shopify cart (external collaborator): a sequence of lines. A line is
\* identified by its key, which Shopify derives from the variant and the
\* line item properties.
\* ------------------------------------------------------------------------
LineKey(variant, props) == <<variant, props>>

HasKey(c, k) == \E i \in DOMAIN c : c[i].key = k

\* POST /cart/add.js: same variant and properties -> quantity is added to
\* the existing line, otherwise a new line is put in front.
CartAdd(c, pid, vid, props, q) ==
  IF HasKey(c, LineKey(vid, props))
    THEN [i \in DOMAIN c |->
            IF c[i].key = LineKey(vid, props)
              THEN [c[i] EXCEPT !.quantity = @ + q]
              ELSE c[i]]
    ELSE <<[product_id |-> pid, variant_id |-> vid, quantity |-> q,
            key |-> LineKey(vid, props)]>> \o c

\* POST /cart/update.js {updates: {key: q}}: sets the quantity of the line,
\* quantity 0 removes it.
CartUpdate(c, k, q) ==
  LET set == [i \in DOMAIN c |->
                IF c[i].key = k THEN [c[i] EXCEPT !.quantity = q] ELSE c[i]]
  IN  SelectSeq(set, LAMBDA l : l.quantity > 0)

IsHiddenItem(item) ==
  \/ item.product_id = HIDDEN_PRODUCT_ID
  \/ item.variant_id = HIDDEN_VARIANT_ID

HiddenLines(c) == {i \in DOMAIN c : IsHiddenItem(c[i])}

\* cart.items.find(...): index of the first surrogate line, 0 when absent
ExistingHiddenItem(c) ==
  IF HiddenLines(c) = {} THEN 0 ELSE MinOf(HiddenLines(c))

\* properties that name the quantity of the adjustment
HiddenProps_perQuantity(quantity) ==
  <<"_addon_adjustment", ToString(quantity)>>

\* properties sent by addHiddenProduct
HiddenProps(quantity) == <<"_addon_adjustment">>

\* ------------------------------------------------------------------------
\* SelectionStore: sessionStorage['productAddons'], a JSON object kept here
\* as the sequence of its entries in key order. An entry written by
\* storeProductAddons has the fields addons, totalPrice and timestamp; the
\* fields productId and variantId read by the cart page are Undefined in it.
\* ------------------------------------------------------------------------
Entry(k, pid, vid, adds, ts) ==
  [key |-> k, productId |-> pid, variantId |-> vid, addons |-> adds,
   totalPrice |-> SumPrices(adds), timestamp |-> ts]

KeyIndex(storage, k) ==
  IF \E i \in DOMAIN storage : storage[i].key = k
    THEN CHOOSE i \in DOMAIN storage : storage[i].key = k
    ELSE 0

\* Object.values(window.productAddons): integer keys, ascending
RECURSIVE SelectedAddons(_, _)
SelectedAddons(addons, ids) ==
  IF ids = {} THEN <<>>
  ELSE LET a == MinOf(ids)
           rest == SelectedAddons(addons, ids \ {a})
       IN  IF addons[a].selected
             THEN <<[name |-> addons[a].name, price |-> addons[a].price,
                     value |-> addons[a].value]>> \o rest
             ELSE rest

\* storeProductAddons starting from an empty object instead of getStorage()
storeProductAddons_fresh(storage, productId, addons, ts) ==
  <<Entry(productId, Undefined, Undefined,
          SelectedAddons(addons, DOMAIN addons), ts)>>

\* AddonStorage.storeProductAddons(productId, addons)
storeProductAddons(storage, productId, addons, ts) ==
  LET e == Entry(productId, Undefined, Undefined,
                 SelectedAddons(addons, DOMAIN addons), ts)
      i == KeyIndex(storage, productId)
  IN  IF i = 0 THEN Append(storage, e) ELSE [storage EXCEPT ![i] = e]

\* AddonStorage.getProductAddons(productId): index of the entry, 0 = null
getProductAddons(storage, productId) == KeyIndex(storage, productId)

\* the product id loop placed before the variant id loop
findAddonDataForCartItem_productFirst(cartItem, addonData) ==
  LET byVariant == {i \in DOMAIN addonData :
                      /\ addonData[i].variantId # Undefined
                      /\ addonData[i].variantId = cartItem.variant_id}
      byProduct == {i \in DOMAIN addonData :
                      /\ addonData[i].productId # Undefined
                      /\ addonData[i].productId = cartItem.product_id}
  IN  IF IsHiddenItem(cartItem) THEN 0
      ELSE IF byProduct # {} THEN MinOf(byProduct)
      ELSE IF byVariant # {} THEN MinOf(byVariant)
      ELSE 0

\* CartPageHandler.findAddonDataForCartItem: index of the matched entry in
\* the storage, 0 = null
findAddonDataForCartItem(cartItem, addonData) ==
  LET byVariant == {i \in DOMAIN addonData :
                      /\ addonData[i].variantId # Undefined
                      /\ addonData[i].variantId = cartItem.variant_id}
      byProduct == {i \in DOMAIN addonData :
                      /\ addonData[i].productId # Undefined
                      /\ addonData[i].productId = cartItem.product_id}
  IN  IF IsHiddenItem(cartItem) THEN 0
      ELSE IF byVariant # {} THEN MinOf(byVariant)
      ELSE IF byProduct # {} THEN MinOf(byProduct)
      ELSE 0

\* the accumulation loop of syncCartWithAddons (cart.items.forEach)
RECURSIVE TotalAddonPrice(_, _)
TotalAddonPrice(items, addonData) ==
  IF items = <<>> THEN 0
  ELSE LET m == findAddonDataForCartItem(items[1], addonData)
       IN  (IF m = 0 THEN 0 ELSE addonData[m].totalPrice)
             + TotalAddonPrice(Tail(items), addonData)

\* productAddonMap built by the same loop: variant id -> addon info; a later
\* line of the same variant overwrites an earlier one
BuildProductAddonMap(items, addonData) ==
  LET matched == {i \in DOMAIN items :
                    findAddonDataForCartItem(items[i], addonData) # 0}
      variants == {items[i].variant_id : i \in matched}
  IN  [v \in variants |->
         LET i == MaxOf({j \in matched : items[j].variant_id = v})
             m == findAddonDataForCartItem(items[i], addonData)
         IN  [addonPrice |-> addonData[m].totalPrice,
              addons |-> addonData[m].addons,
              lineKey |-> items[i].key]]

\* totalAddonPrice / HIDDEN_PRODUCT_PRICE in thousandths: the exact quotient
\* plus the rounding error err of the double division
Quotient(totalAddonPrice, err) ==
  (totalAddonPrice * 1000) \div HIDDEN_PRODUCT_PRICE + err

\* Math.ceil in the place of Math.round
MathRound_ceil(x) == (x + 999) \div 1000

\* Math.round of a number given in thousandths: floor(x + 0.5)
MathRound(x) == (x + 500) \div 1000

\* Math.floor in the place of Math.round
NeededQuantity_truncated(totalAddonPrice, err) ==
  Quotient(totalAddonPrice, err) \div 1000

\* const neededQuantity = Math.round(totalAddonPrice / HIDDEN_PRODUCT_PRICE)
NeededQuantity(totalAddonPrice, err) ==
  MathRound(Quotient(totalAddonPrice, err))

\* the branches without the "no addon pricing needed" return
SyncDecision_noZeroCheck(c, addonData, total, needed) ==
  IF Len(addonData) = 0 THEN "noData"
  ELSE IF ExistingHiddenItem(c) # 0
    THEN IF c[ExistingHiddenItem(c)].quantity # needed
           THEN "update" ELSE "correct"
  ELSE "add"

\* the branches without the look-up of an existing surrogate line
SyncDecision_alwaysAdd(c, addonData, total, needed) ==
  IF Len(addonData) = 0 THEN "noData"
  ELSE IF total = 0 THEN "noPricing"
  ELSE "add"

\* the branches of syncCartWithAddons after the cart has been fetched
SyncDecision(c, addonData, total, needed) ==
  IF Len(addonData) = 0 THEN "noData"
  ELSE IF total = 0 THEN "noPricing"
  ELSE IF ExistingHiddenItem(c) # 0
    THEN IF c[ExistingHiddenItem(c)].quantity # needed
           THEN "update" ELSE "correct"
  ELSE "add"

\* ------------------------------------------------------------------------
\* Add-on catalogue of the server: the database classes MemoryDatabase
\* (memory-database.js) and Database (database.js, SQLite). Strings that the
\* code concatenates are sequences of characters. JavaScript booleans are
\* "true" / "false", SQLite stores a boolean as the integer 1 / 0, written
\* "1" / "0". The timestamps created_at / updated_at are left out.
\* ------------------------------------------------------------------------
Backends == {"memory", "sqlite"}

JsonNull == [isNull |-> TRUE, items |-> <<>>]

JsonArray(items) == [isNull |-> FALSE, items |-> items]

\* a JavaScript number: a finite amount in mills, or NaN
Num(n) == [nan |-> FALSE, n |-> n]

NaN == [nan |-> TRUE, n |-> 0]

\* the price member of a JSON request body: a number, a string or absent
JsonNumber(n) == [json |-> "number", n |-> n, s |-> <<>>]

JsonString(s) == [json |-> "string", n |-> 0, s |-> s]

JsonAbsent == [json |-> "undefined", n |-> 0, s |-> <<>>]

DigitValue ==
  [c \in {"0", "1", "2", "3", "4", "5", "6", "7", "8", "9"} |->
     CASE c = "0" -> 0 [] c = "1" -> 1 [] c = "2" -> 2 [] c = "3" -> 3
       [] c = "4" -> 4 [] c = "5" -> 5 [] c = "6" -> 6 [] c = "7" -> 7
       [] c = "8" -> 8 [] c = "9" -> 9]

\* the longest prefix of s made of decimal digits
RECURSIVE DigitPrefix(_)
DigitPrefix(s) ==
  IF s = <<>> \/ Head(s) \notin DOMAIN DigitValue THEN <<>>
  ELSE <<Head(s)>> \o DigitPrefix(Tail(s))

RECURSIVE DigitsValue(_)
DigitsValue(ds) ==
  IF ds = <<>> THEN 0
  ELSE 10 * DigitsValue(SubSeq(ds, 1, Len(ds) - 1))
         + DigitValue[ds[Len(ds)]]

\* parseFloat: an optional sign and the leading digits of the text (whole
\* currency units, kept in mills); NaN when there are none
parseFloat(j) ==
  IF j.json = "number" THEN Num(j.n)
  ELSE IF j.json = "undefined" THEN NaN
  ELSE LET negative == j.s # <<>> /\ Head(j.s) = "-"
           ds == DigitPrefix(IF negative THEN Tail(j.s) ELSE j.s)
       IN  IF ds = <<>> THEN NaN
           ELSE Num((IF negative THEN 0 - 1 ELSE 1) * 1000 * DigitsValue(ds))

\* {...old, ...patch}
Merge(old, patch) ==
  [f \in DOMAIN old \cup DOMAIN patch |->
     IF f \in DOMAIN patch THEN patch[f] ELSE old[f]]

\* new MemoryDatabase() / new Database()
NewDatabase(b) ==
  [backend |-> b, addons |-> <<>>, addonCounter |-> 1, table |-> <<>>,
   lastID |-> 0]

\* `${productId}-${shop}`
MapKey(pid, shop) == pid \o <<"-">> \o shop

\* this.addons.has(key): index of the array kept under key, 0 when absent
BucketIndex(addons, k) ==
  IF \E i \in DOMAIN addons : addons[i].key = k
    THEN CHOOSE i \in DOMAIN addons : addons[i].key = k
    ELSE 0

\* MemoryDatabase.createAddon
MemoryDatabase_createAddon(d, addonData) ==
  LET addon == Merge([id |-> d.addonCounter, active |-> Undefined],
                     addonData)
      k == MapKey(addonData.productId, addonData.shop)
      b == BucketIndex(d.addons, k)
      stored == IF b = 0
                  THEN Append(d.addons, [key |-> k, list |-> <<addon>>])
                  ELSE [d.addons EXCEPT ![b].list = Append(@, addon)]
  IN  [db |-> [d EXCEPT !.addons = stored,
                        !.addonCounter = d.addonCounter + 1],
       error |-> FALSE, result |-> addon]

\* MemoryDatabase.getAddons
MemoryDatabase_getAddons(d, pid, shop) ==
  LET b == BucketIndex(d.addons, MapKey(pid, shop))
  IN  IF b = 0 THEN <<>>
      ELSE SelectSeq(d.addons[b].list, LAMBDA a : a.active # "false")

\* positions <<bucket, index>> of the stored add-ons with addon.id == id
Positions(d, id) ==
  {<<b, i>> \in (DOMAIN d.addons) \X (1..d.addonCounter) :
     /\ i \in DOMAIN d.addons[b].list
     /\ d.addons[b].list[i].id = id}

\* the first of them in the order of the for...of / findIndex scan
FirstPosition(S) ==
  CHOOSE x \in S :
    \A y \in S : x[1] < y[1] \/ (x[1] = y[1] /\ x[2] <= y[2])

NotFound == [error |-> "Addon not found"]

\* MemoryDatabase.updateAddon
MemoryDatabase_updateAddon(d, id, updateData) ==
  IF Positions(d, id) = {}
    THEN [db |-> d, error |-> TRUE, result |-> NotFound]
    ELSE LET pos == FirstPosition(Positions(d, id))
             merged == Merge(d.addons[pos[1]].list[pos[2]], updateData)
         IN  [db |-> [d EXCEPT !.addons[pos[1]].list[pos[2]] = merged],
              error |-> FALSE, result |-> merged]

\* deleteAddon that looks only among the add-ons still active
MemoryDatabase_deleteAddon_activeOnly(d, id) ==
  LET live == {p \in Positions(d, id) :
                 d.addons[p[1]].list[p[2]].active # "false"}
  IN  IF live = {}
        THEN [db |-> d, error |-> TRUE, result |-> [error |-> "Addon not found"]]
        ELSE LET pos == CHOOSE p \in live : TRUE
             IN  [db |-> [d EXCEPT
                            !.addons[pos[1]].list[pos[2]].active = "false"],
                  error |-> FALSE, result |-> [id |-> id, changes |-> 1]]

\* MemoryDatabase.deleteAddon
MemoryDatabase_deleteAddon(d, id) ==
  IF Positions(d, id) = {}
    THEN [db |-> d, error |-> TRUE, result |-> NotFound]
    ELSE LET pos == FirstPosition(Positions(d, id))
         IN  [db |-> [d EXCEPT !.addons[pos[1]].list[pos[2]].active = "false"],
              error |-> FALSE, result |-> [id |-> id, changes |-> 1]]

\* a JavaScript boolean bound to a parameter of a SQLite statement
SqlBool(v) == IF v = "true" THEN "1" ELSE IF v = "false" THEN "0" ELSE v

SqlBind(f, v) == IF f \in {"required", "active"} THEN SqlBool(v) ELSE v

\* columns of the table addons (id INTEGER PRIMARY KEY AUTOINCREMENT, type
\* CHECK(type IN ('checkbox', 'dropdown')), active BOOLEAN DEFAULT TRUE)
Columns ==
  {"id", "productId", "shop", "name", "price", "type", "required", "options",
   "active", "created_at", "updated_at"}

AddonTypes == {"checkbox", "dropdown"}

DefaultShop == <<"d", "e", "f", "a", "u", "l", "t">>

SqliteError == [error |-> "SQLITE_ERROR"]

\* a text member that the request did not carry (JavaScript undefined); in a
\* template literal it reads "undefined"
UndefinedText == <<"undefined">>

\* the NOT NULL columns of a new row: undefined and NaN are bound as NULL
NotNullViolated(row) ==
  \/ row.productId = UndefinedText
  \/ row.shop = UndefinedText
  \/ row.name = Undefined
  \/ row.price.nan
  \/ row.type = Undefined

\* the id AUTOINCREMENT gives to the next inserted row
NextRowId(d) ==
  1 + MaxOf({d.lastID} \cup {d.table[i].id : i \in DOMAIN d.table})

\* Database.createAddon: INSERT INTO addons (...); resolves
\* {id: this.lastID, ...addonData}
Database_createAddon(d, addonData) ==
  LET row == [id |-> NextRowId(d),
              productId |-> addonData.productId,
              shop |-> IF addonData.shop = <<>> THEN DefaultShop
                       ELSE addonData.shop,
              name |-> addonData.name,
              price |-> addonData.price,
              type |-> addonData.type,
              required |-> SqlBool(addonData.required),
              options |-> IF addonData.options.isNull THEN JsonNull
                          ELSE JsonArray(addonData.options.items),
              active |-> "1"]
  IN  IF NotNullViolated(row) \/ row.type \notin AddonTypes
        THEN [db |-> d, error |-> TRUE, result |-> SqliteError]
        ELSE [db |-> [d EXCEPT !.table = Append(@, row), !.lastID = row.id],
              error |-> FALSE,
              result |-> Merge([id |-> row.id], addonData)]

\* Database.getAddons: SELECT * FROM addons WHERE productId = ? AND
\* shop = ? AND active = TRUE, options parsed from the stored JSON text
Database_getAddons(d, pid, shop) ==
  SelectSeq(d.table,
            LAMBDA r : r.productId = pid /\ r.shop = shop /\ r.active = "1")

RowsWithId(d, id) == {i \in DOMAIN d.table : d.table[i].id = id}

\* Database.updateAddon: UPDATE addons SET <keys of updateData> WHERE id = ?;
\* resolves {id, changes}
Database_updateAddon(d, id, updateData) ==
  LET bound == [f \in DOMAIN updateData |-> SqlBind(f, updateData[f])]
      hit == RowsWithId(d, id)
      table == [i \in DOMAIN d.table |->
                  IF i \in hit THEN Merge(d.table[i], bound)
                  ELSE d.table[i]]
      unknownColumn == ~(DOMAIN updateData \subseteq Columns)
      constraint ==
        \/ \E i \in hit : table[i].type \notin AddonTypes
        \/ \E i \in hit, j \in DOMAIN table : i # j /\ table[i].id = table[j].id
  IN  IF unknownColumn \/ constraint
        THEN [db |-> d, error |-> TRUE, result |-> SqliteError]
        ELSE [db |-> [d EXCEPT !.table = table],
              error |-> FALSE,
              result |-> [id |-> id, changes |-> Cardinality(hit)]]

\* deleteAddon as DELETE FROM addons WHERE id = ?
Database_deleteAddon_remove(d, id) ==
  [db |-> [d EXCEPT !.table = SelectSeq(@, LAMBDA r : r.id # id)],
   error |-> FALSE,
   result |-> [id |-> id, changes |-> Cardinality(RowsWithId(d, id))]]

\* Database.deleteAddon: UPDATE addons SET active = FALSE WHERE id = ?
Database_deleteAddon(d, id) ==
  LET hit == RowsWithId(d, id)
      table == [i \in DOMAIN d.table |->
                  IF i \in hit THEN [d.table[i] EXCEPT !.active = "0"]
                  ELSE d.table[i]]
  IN  [db |-> [d EXCEPT !.table = table],
       error |-> FALSE,
       result |-> [id |-> id, changes |-> Cardinality(hit)]]

\* the methods of the database object the server was started with
createAddon(d, addonData) ==
  IF d.backend = "memory" THEN MemoryDatabase_createAddon(d, addonData)
  ELSE Database_createAddon(d, addonData)

getAddons(d, pid, shop) ==
  IF d.backend = "memory" THEN MemoryDatabase_getAddons(d, pid, shop)
  ELSE Database_getAddons(d, pid, shop)

updateAddon(d, id, updateData) ==
  IF d.backend = "memory" THEN MemoryDatabase_updateAddon(d, id, updateData)
  ELSE Database_updateAddon(d, id, updateData)

deleteAddon(d, id) ==
  IF d.backend = "memory" THEN MemoryDatabase_deleteAddon(d, id)
  ELSE Database_deleteAddon(d, id)

\* every add-on record held by the database, listed or not
StoredAddons(d) ==
  IF d.backend = "memory"
    THEN UNION {{d.addons[b].list[i] : i \in DOMAIN d.addons[b].list} :
                  b \in DOMAIN d.addons}
    ELSE {d.table[i] : i \in DOMAIN d.table}

\* the number of add-on records held by the database
StoredCount(d) ==
  IF d.backend = "memory"
    THEN Cardinality({p \in (DOMAIN d.addons) \X (1..d.addonCounter) :
                        p[2] \in DOMAIN d.addons[p[1]].list})
    ELSE Len(d.table)

NoResponse == [route |-> "none", status |-> 0, body |-> <<>>]

\* ------------------------------------------------------------------------
\* State
\* ------------------------------------------------------------------------
VARIABLES
  now,             \* Date.now()
  cart,            \* the Shopify cart, shared by the tabs
  storage,         \* per tab: sessionStorage['productAddons']
  marker,          \* per tab: sessionStorage['cart_addon_processed']
  page,            \* per tab: kind of page shown ("none", "product", "cart",
                   \* "checkout", "other")
  productId,       \* per tab: product of the product page shown
  productAddons,   \* per tab: window.productAddons
  form,            \* per tab: hidden inputs of the add-to-cart form
  pc,              \* per tab: position of the cart page view
  hasProcessed,    \* per tab: CartPageHandler.hasProcessed
  isProcessing,    \* per tab: CartPageHandler.isProcessing
  productAddonMap, \* per tab: CartPageHandler.productAddonMap
  local,           \* per tab: locals of the running syncCartWithAddons
  viewInit,        \* per tab: Date.now() and the marker read by init()
  calls,           \* per tab: cart calls issued by this page view, in order
  displays,        \* per tab: runs of updateLineItemPrices in this page view
  rows,            \* per tab: the cart rows of the page shown, as displayed
  cartAddons,      \* per tab: what AddonStorage.getCartAddons returned last
  cleaned,         \* per tab: local 'cleaned' of the last clearOldAddons
  db,              \* the server's database object (add-on records)
  response         \* the last response of the server's add-on routes

vars == <<now, cart, storage, marker, page, productId, productAddons, form, pc,
          hasProcessed, isProcessing, productAddonMap, local, viewInit,
          calls, displays, rows, cartAddons, cleaned, db,
          response>>

serverVars == <<db, response>>

storefrontVars == <<now, cart, storage, marker, page, productId,
                    productAddons, form, pc, hasProcessed, isProcessing,
                    productAddonMap, local, viewInit, calls, displays,
                    rows, cartAddons, cleaned>>

pageVars == <<page, productId, productAddons, form>>

handlerVars == <<hasProcessed, isProcessing, productAddonMap, local,
                 viewInit, calls, displays, rows, cartAddons, cleaned>>

EmptyMap == [v \in {} |-> 0]

NoView == [at |-> 0, marker |-> NoMarker]

NoLocal == [fetched |-> FALSE, cart |-> <<>>, totalAddonPrice |-> 0,
            neededQuantity |-> 0, lineKey |-> <<>>]

ProductLine(p, q) ==
  [product_id |-> p, variant_id |-> VariantOf(p), quantity |-> q,
   key |-> LineKey(VariantOf(p), <<>>)]

HiddenLine(q) ==
  [product_id |-> HIDDEN_PRODUCT_ID, variant_id |-> HIDDEN_VARIANT_ID,
   quantity |-> q, key |-> LineKey(HIDDEN_VARIANT_ID, HiddenProps(q))]

\* ------------------------------------------------------------------------
\* Initial states: a cart and, per tab, the sessionStorage the tab starts
\* with. ProgramStorages are contents written by storeProductAddons;
\* SeededStorages carry the productId / variantId fields that
\* findAddonDataForCartItem reads.
\* ------------------------------------------------------------------------
Addon(n, p) == [name |-> n, price |-> p, value |-> "selected"]

ProgramStorages ==
  { <<>>,
    <<Entry("P1", Undefined, Undefined, <<Addon("Gift Wrap", 5000)>>, 0)>> }

SeededStorages ==
  { <<Entry("P1", "P1", Undefined, <<Addon("Gift Wrap", 5000)>>, 0)>>,
    <<Entry("P1", Undefined, "V1",
            <<Addon("Engraving", 3500), Addon("Ribbon", 2450)>>, 0)>>,
    <<Entry("P1", "P1", Undefined, <<Addon("Polish", 1950)>>, 0),
      Entry("P2", "P2", "V2", <<Addon("Monogram", 1957)>>, 0)>>,
    <<Entry("P1", "P1", Undefined, <<>>, 0)>> }

InitStorages == ProgramStorages \cup SeededStorages

InitCarts ==
  { <<>>,
    <<ProductLine("P1", 1)>>,
    <<ProductLine("P2", 1), ProductLine("P1", 1)>>,
    <<HiddenLine(500), ProductLine("P1", 1)>>,
    <<HiddenLine(300), ProductLine("P1", 1), ProductLine("P2", 1)>> }

StorefrontInit(carts, storages) ==
  /\ now = 0
  /\ cart \in carts
  /\ storage \in [Tabs -> storages]
  /\ marker = [t \in Tabs |-> NoMarker]
  /\ page = [t \in Tabs |-> "none"]
  /\ productId = [t \in Tabs |-> Undefined]
  /\ productAddons = [t \in Tabs |-> EmptyMap]
  /\ form = [t \in Tabs |-> <<>>]
  /\ pc = [t \in Tabs |-> "none"]
  /\ hasProcessed = [t \in Tabs |-> FALSE]
  /\ isProcessing = [t \in Tabs |-> FALSE]
  /\ productAddonMap = [t \in Tabs |-> EmptyMap]
  /\ local = [t \in Tabs |-> NoLocal]
  /\ viewInit = [t \in Tabs |-> NoView]
  /\ calls = [t \in Tabs |-> <<>>]
  /\ displays = [t \in Tabs |-> <<>>]
  /\ rows = [t \in Tabs |-> <<>>]
  /\ cartAddons = [t \in Tabs |-> <<>>]
  /\ cleaned = [t \in Tabs |-> FALSE]

\* the storefront next to a freshly started server.js (SQLite database)
InitWith(carts, storages) ==
  /\ StorefrontInit(carts, storages)
  /\ db = NewDatabase("sqlite")
  /\ response = NoResponse

Init == InitWith(InitCarts, InitStorages)

\* ------------------------------------------------------------------------
\* Time
\* ------------------------------------------------------------------------
Tick ==
  /\ UNCHANGED serverVars
  /\ now + TickMs <= MaxNow
  /\ now' = now + TickMs
  /\ UNCHANGED <<cart, storage, marker, pageVars, pc, handlerVars>>

\* a page view is over (or none has started): the tab can load a page
Idle(t) == pc[t] \in {"none", "done"}

\* ------------------------------------------------------------------------
\* Product page
\* ------------------------------------------------------------------------
\* ProductPageHandler.init on the page of product p: a fresh window
LoadProductPage(t, p) ==
  /\ UNCHANGED serverVars
  /\ t \in ProductTabs
  /\ Idle(t)
  /\ page' = [page EXCEPT ![t] = "product"]
  /\ productId' = [productId EXCEPT ![t] = p]
  /\ productAddons' = [productAddons EXCEPT ![t] = EmptyMap]
  /\ form' = [form EXCEPT ![t] = <<>>]
  /\ pc' = [pc EXCEPT ![t] = "none"]
  /\ hasProcessed' = [hasProcessed EXCEPT ![t] = FALSE]
  /\ isProcessing' = [isProcessing EXCEPT ![t] = FALSE]
  /\ productAddonMap' = [productAddonMap EXCEPT ![t] = EmptyMap]
  /\ local' = [local EXCEPT ![t] = NoLocal]
  /\ viewInit' = [viewInit EXCEPT ![t] = NoView]
  /\ calls' = [calls EXCEPT ![t] = <<>>]
  /\ displays' = [displays EXCEPT ![t] = <<>>]
  /\ rows' = [rows EXCEPT ![t] = <<>>]
  /\ cartAddons' = [cartAddons EXCEPT ![t] = <<>>]
  /\ cleaned' = [cleaned EXCEPT ![t] = FALSE]
  /\ UNCHANGED <<now, cart, storage, marker>>

\* the value of the form element of control a before the change event:
\* "selected" for a checked checkbox, the chosen option value for a
\* dropdown, "" for an unchecked checkbox or the option None. A required
\* checkbox is rendered checked and disabled.
ElementValue(t, a) ==
  IF a \in DOMAIN productAddons[t] THEN productAddons[t][a].value
  ELSE IF ControlsOf(productId[t])[a].required THEN "selected"
  ELSE ""

\* the values the form element of a control can take
ElementValues(control) ==
  IF control.type = "checkbox" THEN {"selected", ""}
  ELSE {""} \cup {control.options[i].value : i \in DOMAIN control.options}

\* parseFloat of the data-price attribute read by handleAddonChange
DataPrice(control, v) ==
  IF v = "" THEN 0
  ELSE IF control.type = "checkbox" THEN control.price
  ELSE LET i == CHOOSE j \in DOMAIN control.options :
                  control.options[j].value = v
       IN  control.options[i].price

SetAddon(addons, a, rec) ==
  [x \in DOMAIN addons \cup {a} |-> IF x = a THEN rec ELSE addons[x]]

\* names of this model's inputs for which input.name.includes('Add-on')
\* holds; no add-on of the catalogue has such a name
AddOnNames == {"_Add-ons Total"}

\* price.toFixed(2): an amount in mills shown in whole pence
toFixed2(mills) == (mills + 5) \div 10

\* the hidden input that updateCartProperties creates for a selected add-on
AddonInput(addon) ==
  [name |-> addon.name,
   value |-> <<IF addon.value = "selected" THEN "Yes" ELSE addon.value,
               toFixed2(addon.price)>>]

\* ProductPageHandler.updateCartProperties on the inputs f of the form
updateCartProperties(f, addons) ==
  LET kept == SelectSeq(f, LAMBDA input : input.name \notin AddOnNames)
      sel == SelectedAddons(addons, DOMAIN addons)
      added == [i \in 1..Len(sel) |-> AddonInput(sel[i])]
      totalPrice == SumPrices(sel)
  IN  kept \o added \o
        (IF totalPrice > 0
           THEN <<[name |-> "_Add-ons Total",
                   value |-> <<"", toFixed2(totalPrice)>>]>>
           ELSE <<>>)

\* the line item properties of a submitted form: one per input name
RECURSIVE CartProperties(_)
CartProperties(f) ==
  IF f = <<>> THEN <<>>
  ELSE LET rest == CartProperties(SubSeq(f, 1, Len(f) - 1))
           name == f[Len(f)].name
       IN  IF \E i \in DOMAIN rest : rest[i] = name THEN rest
           ELSE Append(rest, name)

\* ProductPageHandler.handleAddonChange for a change event that leaves the
\* form element of control a with value v; a disabled element fires none
handleAddonChange(t, a, v) ==
  /\ UNCHANGED serverVars
  /\ page[t] = "product"
  /\ a \in DOMAIN ControlsOf(productId[t])
  /\ ~ControlsOf(productId[t])[a].required
  /\ v \in ElementValues(ControlsOf(productId[t])[a])
  /\ v # ElementValue(t, a)
  /\ LET control == ControlsOf(productId[t])[a]
         rec == [selected |-> v # "",
                 price |-> DataPrice(control, v),
                 value |-> v,
                 name |-> control.name]
         addons == SetAddon(productAddons[t], a, rec)
     IN  /\ Len(updateCartProperties(form[t], addons)) <= MaxInputs
         /\ productAddons' = [productAddons EXCEPT ![t] = addons]
         /\ storage' = [storage EXCEPT ![t] =
                          storeProductAddons(@, productId[t], addons, now)]
         /\ form' = [form EXCEPT ![t] = updateCartProperties(@, addons)]
  /\ UNCHANGED <<now, cart, marker, page, productId, pc, handlerVars>>

\* the shopper submits the theme's add-to-cart form of the product page
AddToCart(t) ==
  /\ UNCHANGED serverVars
  /\ page[t] = "product"
  /\ LET p == productId[t]
         props == CartProperties(form[t])
         k == LineKey(VariantOf(p), props)
     IN  /\ IF HasKey(cart, k)
               THEN \A i \in DOMAIN cart :
                      cart[i].key = k => cart[i].quantity < MaxLineQty
               ELSE Len(cart) < MaxCartLines
         /\ cart' = CartAdd(cart, p, VariantOf(p), props, 1)
  /\ UNCHANGED <<now, storage, marker, pageVars, pc, handlerVars>>

\* ------------------------------------------------------------------------
\* Cart page: one page view of CartPageHandler
\* ------------------------------------------------------------------------
FloatError == {-1, 0, 1}

\* the comparison of the recency check turned around
Recent_inverted(t) ==
  marker[t] # NoMarker /\ now - marker[t] > RecentWindowMs

\* processed && (Date.now() - parseInt(processed)) < 5000
Recent(t) == marker[t] # NoMarker /\ now - marker[t] < RecentWindowMs

\* the rows of the cart page as the theme renders them from the cart: one
\* row per line with data-product-id and data-variant-id, shown
\* (the text of a row: the names of the line item properties of its line)
CartRows(c) ==
  [i \in DOMAIN c |->
     [product_id |-> c[i].product_id, variant_id |-> c[i].variant_id,
      display |-> "", hiddenAddonProduct |-> FALSE,
      text |-> [words |-> {c[i].key[2][j] : j \in DOMAIN c[i].key[2]},
                amounts |-> {}]]]

\* CartPageHandler.isHiddenProductRow: the checks of the data attributes;
\* the checks of the row text (SKU, title, price 0.01) hold for the same
\* row in a theme that prints them
isHiddenProductRow(row) ==
  \/ row.product_id = HIDDEN_PRODUCT_ID
  \/ row.variant_id = HIDDEN_VARIANT_ID

\* hideHiddenProductRows that flips the display of the surrogate rows
hideHiddenProductRows_toggle(rs) ==
  [i \in DOMAIN rs |->
     IF isHiddenProductRow(rs[i])
       THEN [rs[i] EXCEPT !.display = IF @ = "none" THEN "" ELSE "none",
                          !.hiddenAddonProduct = TRUE]
       ELSE rs[i]]

\* CartPageHandler.hideHiddenProductRows
hideHiddenProductRows(rs) ==
  [i \in DOMAIN rs |->
     IF isHiddenProductRow(rs[i])
       THEN [rs[i] EXCEPT !.display = "none", !.hiddenAddonProduct = TRUE]
       ELSE rs[i]]

\* new CartPageHandler(logger).init() on a freshly loaded cart page
CartPageInit(t) ==
  /\ UNCHANGED serverVars
  /\ Idle(t)
  /\ page' = [page EXCEPT ![t] = "cart"]
  /\ productId' = [productId EXCEPT ![t] = Undefined]
  /\ productAddons' = [productAddons EXCEPT ![t] = EmptyMap]
  /\ form' = [form EXCEPT ![t] = <<>>]
  /\ isProcessing' = [isProcessing EXCEPT ![t] = FALSE]
  /\ productAddonMap' = [productAddonMap EXCEPT ![t] = EmptyMap]
  /\ local' = [local EXCEPT ![t] = NoLocal]
  /\ viewInit' = [viewInit EXCEPT ![t] = [at |-> now, marker |-> marker[t]]]
  /\ calls' = [calls EXCEPT ![t] = <<>>]
  /\ displays' = [displays EXCEPT ![t] = <<>>]
  /\ rows' = [rows EXCEPT ![t] = hideHiddenProductRows(CartRows(cart))]
  /\ cartAddons' = [cartAddons EXCEPT ![t] = <<>>]
  /\ cleaned' = [cleaned EXCEPT ![t] = FALSE]
  /\ IF Recent(t)
       THEN /\ hasProcessed' = [hasProcessed EXCEPT ![t] = TRUE]
            /\ pc' = [pc EXCEPT ![t] = "displayTimer"]
            /\ UNCHANGED marker
       ELSE /\ hasProcessed' = [hasProcessed EXCEPT ![t] = FALSE]
            /\ marker' = [marker EXCEPT ![t] = NoMarker]
            /\ pc' = [pc EXCEPT ![t] = "syncTimer"]
  /\ UNCHANGED <<now, cart, storage>>

\* CartPageHandler.updateLineItemPrices: the variants whose rows it is
\* asked to annotate
updateLineItemPrices(t, map) == Append(displays[t], DOMAIN map)

\* setTimeout(() => this.updateLineItemPrices(), 500) of the recent branch
DisplayTimer(t) ==
  /\ UNCHANGED serverVars
  /\ pc[t] = "displayTimer"
  /\ displays' = [displays EXCEPT ![t] =
                    updateLineItemPrices(t, productAddonMap[t])]
  /\ rows' = [rows EXCEPT ![t] = hideHiddenProductRows(@)]
  /\ UNCHANGED <<cartAddons, cleaned>>
  /\ pc' = [pc EXCEPT ![t] = "done"]
  /\ UNCHANGED <<now, cart, storage, marker, pageVars, hasProcessed,
                 isProcessing, productAddonMap, local, viewInit, calls>>

Call(op, target, quantity) ==
  [op |-> op, target |-> target, quantity |-> quantity, result |-> "pending"]

\* the response to the last call issued by the page view
Answer(log, o) == [log EXCEPT ![Len(log)].result = o]

\* syncCartWithAddons up to the await of getCurrentCart
SyncStart(t) ==
  /\ UNCHANGED serverVars
  /\ pc[t] = "syncTimer"
  /\ IF isProcessing[t] \/ hasProcessed[t]
       THEN /\ pc' = [pc EXCEPT ![t] = "done"]
            /\ UNCHANGED <<isProcessing, calls>>
       ELSE /\ isProcessing' = [isProcessing EXCEPT ![t] = TRUE]
            /\ calls' = [calls EXCEPT ![t] =
                           Append(@, Call("fetch", <<>>, 0))]
            /\ pc' = [pc EXCEPT ![t] = "fetching"]
  /\ UNCHANGED <<now, cart, storage, marker, pageVars, hasProcessed,
                 productAddonMap, local, viewInit, displays, rows, cartAddons, cleaned>>

\* markAsProcessed
markAsProcessed(t) ==
  /\ hasProcessed' = [hasProcessed EXCEPT ![t] = TRUE]
  /\ marker' = [marker EXCEPT ![t] = now]

\* the end of syncCartWithAddons scheduling another sync
SyncReturn_resync(t) ==
  /\ pc' = [pc EXCEPT ![t] = "syncTimer"]
  /\ isProcessing' = [isProcessing EXCEPT ![t] = FALSE]

\* the end of syncCartWithAddons (finally)
SyncReturn(t) ==
  /\ pc' = [pc EXCEPT ![t] = "done"]
  /\ isProcessing' = [isProcessing EXCEPT ![t] = FALSE]

\* GET /cart.js answers with outcome o; syncCartWithAddons runs on to its
\* next await or to its end
FetchDone(t, o) ==
  /\ UNCHANGED serverVars
  /\ pc[t] = "fetching"
  /\ UNCHANGED <<now, cart, storage, pageVars, viewInit>>
  /\ IF o # "ok"
       THEN \* getCurrentCart returns null
            /\ SyncReturn(t)
            /\ calls' = [calls EXCEPT ![t] = Answer(@, o)]
            /\ UNCHANGED <<marker, hasProcessed, productAddonMap, local,
                           displays, rows, cartAddons, cleaned>>
       ELSE
         \E err \in FloatError :
         LET addonData == storage[t]
             total == TotalAddonPrice(cart, addonData)
             map == BuildProductAddonMap(cart, addonData)
             e == ExistingHiddenItem(cart)
             needed == NeededQuantity(total, err)
             decision == SyncDecision(cart, addonData, total, needed)
             seen == [fetched |-> TRUE, cart |-> cart,
                      totalAddonPrice |-> total,
                      neededQuantity |-> needed,
                      lineKey |-> IF e = 0 THEN <<>> ELSE cart[e].key]
             answered == Answer(calls[t], o)
         IN
           CASE decision = "noData" ->
                  /\ SyncReturn(t)
                  /\ local' = [local EXCEPT ![t] =
                                 [NoLocal EXCEPT !.fetched = TRUE,
                                                 !.cart = cart]]
                  /\ calls' = [calls EXCEPT ![t] = answered]
                  /\ UNCHANGED <<marker, hasProcessed, productAddonMap,
                                 displays, rows, cartAddons, cleaned>>
             [] decision = "noPricing" ->
                  /\ SyncReturn(t)
                  /\ productAddonMap' = [productAddonMap EXCEPT ![t] = map]
                  /\ local' = [local EXCEPT ![t] = seen]
                  /\ calls' = [calls EXCEPT ![t] = answered]
                  /\ UNCHANGED <<marker, hasProcessed, displays, rows, cartAddons, cleaned>>
             [] decision = "update" ->
                  \* await updateHiddenProductQuantity(key, neededQuantity)
                  /\ pc' = [pc EXCEPT ![t] = "updating"]
                  /\ productAddonMap' = [productAddonMap EXCEPT ![t] = map]
                  /\ local' = [local EXCEPT ![t] = seen]
                  /\ calls' = [calls EXCEPT ![t] =
                                 Append(answered,
                                        Call("update", cart[e].key, needed))]
                  /\ UNCHANGED <<marker, hasProcessed, isProcessing,
                                 displays, rows, cartAddons, cleaned>>
             [] decision = "correct" ->
                  /\ SyncReturn(t)
                  /\ markAsProcessed(t)
                  /\ productAddonMap' = [productAddonMap EXCEPT ![t] = map]
                  /\ local' = [local EXCEPT ![t] = seen]
                  /\ calls' = [calls EXCEPT ![t] = answered]
                  /\ displays' = [displays EXCEPT ![t] =
                                    updateLineItemPrices(t, map)]
                  /\ rows' = [rows EXCEPT ![t] = hideHiddenProductRows(@)]
                  /\ UNCHANGED <<cartAddons, cleaned>>
             [] decision = "add" ->
                  \* await addHiddenProduct(neededQuantity)
                  /\ pc' = [pc EXCEPT ![t] = "adding"]
                  /\ productAddonMap' = [productAddonMap EXCEPT ![t] = map]
                  /\ local' = [local EXCEPT ![t] = seen]
                  /\ calls' = [calls EXCEPT ![t] =
                                 Append(answered,
                                        Call("add",
                                             LineKey(HIDDEN_VARIANT_ID,
                                                     HiddenProps(needed)),
                                             needed))]
                  /\ UNCHANGED <<marker, hasProcessed, isProcessing,
                                 displays, rows, cartAddons, cleaned>>

\* addHiddenProduct updating the displayed prices whatever the answer
addHiddenProduct_displayAlways(t, o) ==
  /\ UNCHANGED serverVars
  /\ pc[t] = "adding"
  /\ o = "ok" => local[t].neededQuantity > 0
  /\ IF o = "ok"
       THEN /\ cart' = CartAdd(cart, HIDDEN_PRODUCT_ID, HIDDEN_VARIANT_ID,
                               HiddenProps(local[t].neededQuantity),
                               local[t].neededQuantity)
            /\ markAsProcessed(t)
       ELSE UNCHANGED <<cart, marker, hasProcessed>>
  /\ displays' = [displays EXCEPT ![t] =
                    updateLineItemPrices(t, productAddonMap[t])]
  /\ rows' = [rows EXCEPT ![t] = hideHiddenProductRows(@)]
  /\ UNCHANGED <<cartAddons, cleaned>>
  /\ calls' = [calls EXCEPT ![t] = Answer(@, o)]
  /\ pc' = [pc EXCEPT ![t] = "done"]
  /\ isProcessing' = [isProcessing EXCEPT ![t] = FALSE]
  /\ UNCHANGED <<now, storage, pageVars, productAddonMap, local, viewInit>>

\* updateHiddenProductQuantity marking the cart as processed whatever the
\* answer
updateHiddenProductQuantity_markAlways(t, o) ==
  /\ UNCHANGED serverVars
  /\ pc[t] = "updating"
  /\ IF o = "ok"
       THEN /\ cart' = CartUpdate(cart, local[t].lineKey,
                                  local[t].neededQuantity)
            /\ displays' = [displays EXCEPT ![t] =
                              updateLineItemPrices(t, productAddonMap[t])]
            /\ rows' = [rows EXCEPT ![t] = hideHiddenProductRows(@)]
            /\ UNCHANGED <<cartAddons, cleaned>>
       ELSE UNCHANGED <<cart, displays, rows, cartAddons, cleaned>>
  /\ markAsProcessed(t)
  /\ calls' = [calls EXCEPT ![t] = Answer(@, o)]
  /\ pc' = [pc EXCEPT ![t] = "done"]
  /\ isProcessing' = [isProcessing EXCEPT ![t] = FALSE]
  /\ UNCHANGED <<now, storage, pageVars, productAddonMap, local, viewInit>>

\* POST /cart/add.js of addHiddenProduct answers with outcome o
addHiddenProduct(t, o) ==
  /\ UNCHANGED serverVars
  /\ pc[t] = "adding"
  /\ o = "ok" => local[t].neededQuantity > 0
  /\ IF o = "ok"
       THEN /\ cart' = CartAdd(cart, HIDDEN_PRODUCT_ID, HIDDEN_VARIANT_ID,
                               HiddenProps(local[t].neededQuantity),
                               local[t].neededQuantity)
            /\ markAsProcessed(t)
            /\ displays' = [displays EXCEPT ![t] =
                              updateLineItemPrices(t, productAddonMap[t])]
            /\ rows' = [rows EXCEPT ![t] = hideHiddenProductRows(@)]
            /\ UNCHANGED <<cartAddons, cleaned>>
       ELSE UNCHANGED <<cart, marker, hasProcessed, displays, rows, cartAddons, cleaned>>
  /\ calls' = [calls EXCEPT ![t] = Answer(@, o)]
  /\ SyncReturn(t)
  /\ UNCHANGED <<now, storage, pageVars, productAddonMap, local, viewInit>>

\* POST /cart/update.js of updateHiddenProductQuantity answers with o
updateHiddenProductQuantity(t, o) ==
  /\ UNCHANGED serverVars
  /\ pc[t] = "updating"
  /\ IF o = "ok"
       THEN /\ cart' = CartUpdate(cart, local[t].lineKey,
                                  local[t].neededQuantity)
            /\ markAsProcessed(t)
            /\ displays' = [displays EXCEPT ![t] =
                              updateLineItemPrices(t, productAddonMap[t])]
            /\ rows' = [rows EXCEPT ![t] = hideHiddenProductRows(@)]
            /\ UNCHANGED <<cartAddons, cleaned>>
       ELSE UNCHANGED <<cart, marker, hasProcessed, displays, rows, cartAddons, cleaned>>
  /\ calls' = [calls EXCEPT ![t] = Answer(@, o)]
  /\ SyncReturn(t)
  /\ UNCHANGED <<now, storage, pageVars, productAddonMap, local, viewInit>>

\* ------------------------------------------------------------------------
\* Specifications
\* ------------------------------------------------------------------------
\* the cart page views of the tabs
CartNext ==
  \/ Tick
  \/ \E t \in Tabs : CartPageInit(t)
  \/ \E t \in Tabs : DisplayTimer(t)
  \/ \E t \in Tabs : SyncStart(t)
  \/ \E t \in Tabs, o \in Outcomes : FetchDone(t, o)
  \/ \E t \in Tabs, o \in Outcomes : addHiddenProduct(t, o)
  \/ \E t \in Tabs, o \in Outcomes : updateHiddenProductQuantity(t, o)

Spec == Init /\ [][CartNext]_vars

\* timers fire and network calls are answered
Fairness ==
  \A t \in Tabs :
    /\ WF_vars(DisplayTimer(t))
    /\ WF_vars(SyncStart(t))
    /\ WF_vars(\E o \in Outcomes : FetchDone(t, o))
    /\ WF_vars(\E o \in Outcomes : addHiddenProduct(t, o))
    /\ WF_vars(\E o \in Outcomes : updateHiddenProductQuantity(t, o))

FairStorages ==
  { <<Entry("P1", "P1", Undefined, <<Addon("Gift Wrap", 5000)>>, 0)>>,
    <<Entry("P1", "P1", Undefined, <<Addon("Polish", 1950)>>, 0),
      Entry("P2", "P2", "V2", <<Addon("Monogram", 1957)>>, 0)>> }

FairCarts ==
  { <<ProductLine("P1", 1)>>,
    <<HiddenLine(300), ProductLine("P1", 1), ProductLine("P2", 1)>> }

FairSpec == InitWith(FairCarts, FairStorages) /\ [][CartNext]_vars /\ Fairness

\* one shopper in one tab with an empty cart: product pages, add to cart,
\* cart page views. The session starts empty or with selections that carry
\* the product and variant ids.
ShopStorages ==
  { <<>>,
    <<Entry("P1", "P1", Undefined, <<Addon("Polish", 1950)>>, 0),
      Entry("P2", "P2", "V2", <<Addon("Monogram", 1957)>>, 0)>> }

ShopInit ==
  /\ InitWith({<<>>}, ShopStorages)
  /\ \A t \in Tabs \ ProductTabs : storage[t] = <<>>

ShopNext ==
  \/ Tick
  \/ \E t \in ProductTabs, p \in Products : LoadProductPage(t, p)
  \/ \E t \in ProductTabs, a \in {1, 3}, v \in {"selected", ""} :
       handleAddonChange(t, a, v)
  \/ \E t \in ProductTabs : AddToCart(t)
  \/ \E t \in ProductTabs : CartPageInit(t)
  \/ \E t \in ProductTabs : DisplayTimer(t)
  \/ \E t \in ProductTabs : SyncStart(t)
  \/ \E t \in ProductTabs, o \in Outcomes : FetchDone(t, o)
  \/ \E t \in ProductTabs, o \in Outcomes : addHiddenProduct(t, o)
  \/ \E t \in ProductTabs, o \in Outcomes : updateHiddenProductQuantity(t, o)

SpecShop == ShopInit /\ [][ShopNext]_vars

\* one shopper browsing product pages in one tab: every control of the
\* page can be changed to every value of its form element
ControlIds == UNION {DOMAIN ControlsOf(p) : p \in Products}

FormValues ==
  UNION {UNION {ElementValues(ControlsOf(p)[a]) : a \in DOMAIN ControlsOf(p)} :
           p \in Products}

PageInit == InitWith({<<>>}, {<<>>})

PageNext ==
  \/ Tick
  \/ \E t \in ProductTabs, p \in Products : LoadProductPage(t, p)
  \/ \E t \in ProductTabs, a \in ControlIds, v \in FormValues :
       handleAddonChange(t, a, v)

SpecPage == PageInit /\ [][PageNext]_vars

\* one shopper viewing the cart page in one tab, with stored selections
\* that carry a product id, a variant id, both or none, in every combination
StoredIds(ids) == {Undefined} \cup ids

\* a selection stored more than 24 hours before the cart page is viewed
ExpiredStorage ==
  <<Entry("P1", "P1", Undefined, <<Addon("Gift Wrap", 5000)>>,
          0 - MAX_AGE - 1)>>

MatchStorages ==
  {<<>>, ExpiredStorage} \cup
  { <<Entry("k1", p1, v1, <<Addon("Alpha", 1000)>>, 0),
      Entry("k2", p2, v2, <<Addon("Beta", 2000)>>, 0)>> :
      <<p1, v1, p2, v2>> \in
        StoredIds(Products) \X StoredIds({VariantOf(p) : p \in Products})
          \X StoredIds(Products) \X StoredIds({VariantOf(p) : p \in Products}) }

MatchCarts ==
  { <<ProductLine("P1", 1)>>,
    <<ProductLine("P2", 1), ProductLine("P1", 1)>>,
    <<HiddenLine(300), ProductLine("P1", 1)>> }

MatchInit ==
  /\ InitWith(MatchCarts, MatchStorages)
  /\ \A t \in Tabs \ ProductTabs : storage[t] = <<>>

MatchNext ==
  \/ Tick
  \/ \E t \in ProductTabs : CartPageInit(t)
  \/ \E t \in ProductTabs : DisplayTimer(t)
  \/ \E t \in ProductTabs : SyncStart(t)
  \/ \E t \in ProductTabs, o \in Outcomes : FetchDone(t, o)
  \/ \E t \in ProductTabs, o \in Outcomes : addHiddenProduct(t, o)
  \/ \E t \in ProductTabs, o \in Outcomes : updateHiddenProductQuantity(t, o)

SpecMatch == MatchInit /\ [][MatchNext]_vars

\* ------------------------------------------------------------------------
\* The entry point of the storefront script: init() asks the PageDetector
\* and hands the page view to one handler. A page is the pathname (its
\* segments), the hostname and the elements and body classes that the
\* detector queries.
\* ------------------------------------------------------------------------
\* window.location.pathname.includes('/' + segment)
PathIncludes(pathname, segment) ==
  \E i \in DOMAIN pathname : pathname[i] = segment

\* PageDetector.isProductPage; '/products/' needs a segment after it
isProductPage(f) ==
  \/ \E i \in DOMAIN f.pathname : f.pathname[i] = "products" /\ i < Len(f.pathname)
  \/ f.dataProductId
  \/ f.cartAddForm
  \/ f.productForm
  \/ f.templateProduct

\* PageDetector.isCartPage
isCartPage(f) ==
  \/ PathIncludes(f.pathname, "cart")
  \/ f.templateCart
  \/ f.cartPageClass
  \/ f.cartPageId
  \/ f.dataCartItems

\* PageDetector.isCheckoutPage
isCheckoutPage(f) ==
  \/ PathIncludes(f.pathname, "checkout")
  \/ f.checkoutHost
  \/ f.templateCheckout
  \/ f.checkoutClass
  \/ f.checkoutId

\* a page with none of the queried elements
BarePage(pathname) ==
  [pathname |-> pathname, checkoutHost |-> FALSE,
   dataProductId |-> FALSE, cartAddForm |-> FALSE, productForm |-> FALSE,
   templateProduct |-> FALSE, templateCart |-> FALSE,
   cartPageClass |-> FALSE, cartPageId |-> FALSE, dataCartItems |-> FALSE,
   templateCheckout |-> FALSE, checkoutClass |-> FALSE,
   checkoutId |-> FALSE]

\* pages of a shop: a product page, the cart page bare and with product
\* cards or a quick-add form on it, the home page with a cart drawer, the
\* checkout by path, by host and by body class, and a page of no kind
Pages ==
  { [BarePage(<<"products", "p1">>) EXCEPT !.dataProductId = TRUE,
                                           !.cartAddForm = TRUE],
    BarePage(<<"cart">>),
    [BarePage(<<"cart">>) EXCEPT !.templateCart = TRUE,
                                 !.dataProductId = TRUE],
    [BarePage(<<"cart">>) EXCEPT !.cartAddForm = TRUE],
    [BarePage(<<>>) EXCEPT !.dataCartItems = TRUE],
    BarePage(<<"checkout">>),
    [BarePage(<<"c1", "information">>) EXCEPT !.checkoutHost = TRUE],
    [BarePage(<<"c1">>) EXCEPT !.templateCheckout = TRUE,
                               !.checkoutClass = TRUE],
    BarePage(<<"pages", "about">>) }

\* a page view that no handler of the sync takes: a fresh window
PlainPageLoad(t, kind) ==
  /\ UNCHANGED serverVars
  /\ Idle(t)
  /\ page' = [page EXCEPT ![t] = kind]
  /\ productId' = [productId EXCEPT ![t] = Undefined]
  /\ productAddons' = [productAddons EXCEPT ![t] = EmptyMap]
  /\ form' = [form EXCEPT ![t] = <<>>]
  /\ pc' = [pc EXCEPT ![t] = "none"]
  /\ hasProcessed' = [hasProcessed EXCEPT ![t] = FALSE]
  /\ isProcessing' = [isProcessing EXCEPT ![t] = FALSE]
  /\ productAddonMap' = [productAddonMap EXCEPT ![t] = EmptyMap]
  /\ local' = [local EXCEPT ![t] = NoLocal]
  /\ viewInit' = [viewInit EXCEPT ![t] = NoView]
  /\ calls' = [calls EXCEPT ![t] = <<>>]
  /\ displays' = [displays EXCEPT ![t] = <<>>]
  /\ rows' = [rows EXCEPT ![t] = <<>>]
  /\ cartAddons' = [cartAddons EXCEPT ![t] = <<>>]
  /\ cleaned' = [cleaned EXCEPT ![t] = FALSE]
  /\ UNCHANGED <<now, cart, storage, marker>>

\* CheckoutPageHandler.init: rewrites the prices shown in the order
\* summary; it reads no stored selection and calls no cart endpoint
CheckoutPageInit(t) == PlainPageLoad(t, "checkout")

\* init() of the entry point on page f
init(t, f) ==
  IF isProductPage(f) THEN \E p \in Products : LoadProductPage(t, p)
  ELSE IF isCartPage(f) THEN CartPageInit(t)
  ELSE IF isCheckoutPage(f) THEN CheckoutPageInit(t)
  ELSE PlainPageLoad(t, "other")

RouteInit ==
  /\ InitWith(FairCarts, FairStorages \cup {<<>>})
  /\ \A t \in Tabs \ ProductTabs : storage[t] = <<>>

RouteNext ==
  \/ Tick
  \/ \E t \in ProductTabs, f \in Pages : init(t, f)
  \/ \E t \in ProductTabs : DisplayTimer(t)
  \/ \E t \in ProductTabs : SyncStart(t)
  \/ \E t \in ProductTabs, o \in Outcomes : FetchDone(t, o)
  \/ \E t \in ProductTabs, o \in Outcomes : addHiddenProduct(t, o)
  \/ \E t \in ProductTabs, o \in Outcomes : updateHiddenProductQuantity(t, o)

SpecRoute == RouteInit /\ [][RouteNext]_vars

\* ------------------------------------------------------------------------
\* AddonStorage.getCartAddons and its fallback matchAddonsByCartProperties,
\* in the two AddonStorage classes of the storefront
\* ------------------------------------------------------------------------
DigitChar == <<"0", "1", "2", "3", "4", "5", "6", "7", "8", "9">>

\* the decimal digits of a natural number
RECURSIVE DecimalText(_)
DecimalText(n) ==
  IF n < 10 THEN <<DigitChar[n + 1]>>
  ELSE DecimalText(n \div 10) \o <<DigitChar[(n % 10) + 1]>>

\* `${addon.price}`: the shortest decimal text of an amount kept in mills
NumberText(mills) ==
  LET f == mills % 1000
      frac == <<DigitChar[(f \div 100) + 1], DigitChar[((f \div 10) % 10) + 1],
                DigitChar[(f % 10) + 1]>>
      keep == IF f = 0 THEN 0
              ELSE IF f % 100 = 0 THEN 1
              ELSE IF f % 10 = 0 THEN 2 ELSE 3
  IN  DecimalText(mills \div 1000) \o
        (IF keep = 0 THEN <<>> ELSE <<".">> \o SubSeq(frac, 1, keep))

\* an amount in pence as a theme prints it after the pound sign
FixedText(pence) ==
  DecimalText(pence \div 100) \o
    <<".", DigitChar[((pence \div 10) % 10) + 1], DigitChar[(pence % 10) + 1]>>

IsPrefix(s, u) == Len(s) <= Len(u) /\ SubSeq(u, 1, Len(s)) = s

\* itemText.includes(`£${addon.price}`): the text of a row is the set of
\* words printed in it and the set of amounts (pence) printed after a '£'
includesPriceToken(text, price) ==
  \E a \in text.amounts : IsPrefix(NumberText(price), FixedText(a))

\* matchAddonsByCartProperties of modules/addon-storage.js; <<>> is null
RECURSIVE matchAddonsByCartProperties(_, _)
matchAddonsByCartProperties(text, st) ==
  IF st = <<>> THEN <<>>
  ELSE LET productData == Head(st)
           matched == SelectSeq(productData.addons,
                                LAMBDA addon : \/ addon.name \in text.words
                                               \/ addon.value \in text.words)
           matchCount == Len(matched)
       IN  IF matchCount > 0 /\ 10 * matchCount >= 7 * Len(productData.addons)
             THEN <<[addons |-> productData.addons,
                     totalPrice |-> productData.totalPrice]>>
             ELSE matchAddonsByCartProperties(text, Tail(st))

\* matchAddonsByCartProperties of the AddonStorage in modules/checkout-page.js
RECURSIVE matchAddonsByCartProperties_checkout(_, _)
matchAddonsByCartProperties_checkout(text, st) ==
  IF st = <<>> THEN <<>>
  ELSE LET productData == Head(st)
           matchedAddons ==
             SelectSeq(productData.addons,
                       LAMBDA addon : \/ addon.name \in text.words
                                      \/ addon.value \in text.words
                                      \/ includesPriceToken(text, addon.price))
           matchCount == Len(matchedAddons)
       IN  IF matchCount > 0 /\ 10 * matchCount >= 7 * Len(productData.addons)
             THEN <<[addons |-> matchedAddons,
                     totalPrice |-> SumPrices(matchedAddons)]>>
             ELSE matchAddonsByCartProperties_checkout(text, Tail(st))

StorageClasses == {"addon-storage", "checkout-page"}

\* extractProductIdFromCartItem: the data-product-id attribute of the row
extractProductIdFromCartItem(row) == row.product_id

\* the body of the forEach in getCartAddons, for row i
CartItemAddons(rs, i, st, class) ==
  LET pid == extractProductIdFromCartItem(rs[i])
  IN  IF pid # Undefined /\ KeyIndex(st, pid) # 0
        THEN <<[item |-> i, productId |-> pid,
                addons |-> st[KeyIndex(st, pid)].addons,
                totalPrice |-> st[KeyIndex(st, pid)].totalPrice]>>
        ELSE LET matchedAddons ==
                   IF class = "addon-storage"
                     THEN matchAddonsByCartProperties(rs[i].text, st)
                     ELSE matchAddonsByCartProperties_checkout(rs[i].text, st)
             IN  IF matchedAddons = <<>> THEN <<>>
                 ELSE <<[item |-> i, productId |-> Undefined,
                         addons |-> matchedAddons[1].addons,
                         totalPrice |-> matchedAddons[1].totalPrice]>>

RECURSIVE CartAddonsFrom(_, _, _, _)
CartAddonsFrom(rs, i, st, class) ==
  IF i > Len(rs) THEN <<>>
  ELSE CartItemAddons(rs, i, st, class) \o CartAddonsFrom(rs, i + 1, st, class)

\* AddonStorage.getCartAddons(cartItems) on the rows of the cart page
getCartAddons(t, class) ==
  /\ page[t] = "cart"
  /\ cartAddons' =
       [cartAddons EXCEPT ![t] = CartAddonsFrom(rows[t], 1, storage[t], class)]
  /\ UNCHANGED <<now, cart, storage, marker, pageVars, pc, hasProcessed,
                 isProcessing, productAddonMap, local, viewInit, calls,
                 displays, rows, cleaned, serverVars>>

\* a product with four add-on controls, and the selections of its first
\* one to four add-ons
FuzzyAddons ==
  <<Addon("Gift Wrap", 5000), Addon("Engraving", 3500),
    Addon("Ribbon", 2450), Addon("Polish", 1950)>>

FuzzyStorages ==
  { <<Entry("P3", "P3", Undefined, SubSeq(FuzzyAddons, 1, n), 0)>> :
      n \in 1..4 } \cup
  { <<Entry("P3", "P3", Undefined, SubSeq(FuzzyAddons, 1, 2), 0),
      Entry("P4", "P4", Undefined, SubSeq(FuzzyAddons, 3, 4), 0)>> }

\* what a theme prints in the row of a line: any of the add-on names as
\* line item properties, and no amount, 5.00 or 50.00
FuzzyTexts ==
  { [words |-> ws, amounts |-> am] :
      ws \in SUBSET {FuzzyAddons[j].name : j \in DOMAIN FuzzyAddons},
      am \in {{}, {500}, {5000}} }

\* the cart page of a cart with one line, already shown in the product tab
\* by a theme that prints the product id on the row or not
FuzzyInit ==
  /\ now = 0
  /\ cart = <<ProductLine("P1", 1)>>
  /\ storage \in [Tabs -> FuzzyStorages \cup {<<>>}]
  /\ \A t \in Tabs \ ProductTabs : storage[t] = <<>>
  /\ \A t \in ProductTabs : storage[t] # <<>>
  /\ marker = [t \in Tabs |-> NoMarker]
  /\ page = [t \in Tabs |-> IF t \in ProductTabs THEN "cart" ELSE "none"]
  /\ productId = [t \in Tabs |-> Undefined]
  /\ productAddons = [t \in Tabs |-> EmptyMap]
  /\ form = [t \in Tabs |-> <<>>]
  /\ pc = [t \in Tabs |-> IF t \in ProductTabs THEN "syncTimer" ELSE "none"]
  /\ hasProcessed = [t \in Tabs |-> FALSE]
  /\ isProcessing = [t \in Tabs |-> FALSE]
  /\ productAddonMap = [t \in Tabs |-> EmptyMap]
  /\ local = [t \in Tabs |-> NoLocal]
  /\ viewInit = [t \in Tabs |-> NoView]
  /\ calls = [t \in Tabs |-> <<>>]
  /\ displays = [t \in Tabs |-> <<>>]
  /\ \E text \in FuzzyTexts, pid \in {Undefined, "P3"} :
       rows = [t \in Tabs |->
                 IF t \in ProductTabs
                   THEN <<[product_id |-> pid, variant_id |-> "V1",
                           display |-> "", hiddenAddonProduct |-> FALSE,
                           text |-> text]>>
                   ELSE <<>>]
  /\ cartAddons = [t \in Tabs |-> <<>>]
  /\ cleaned = [t \in Tabs |-> FALSE]
  /\ db = NewDatabase("sqlite")
  /\ response = NoResponse

FuzzyNext ==
  \E t \in ProductTabs, class \in StorageClasses : getCartAddons(t, class)

SpecFuzzy == FuzzyInit /\ [][FuzzyNext]_vars

\* ------------------------------------------------------------------------
\* AddonStorage.clearOldAddons
\* ------------------------------------------------------------------------
\* (now - storage[productId].timestamp) > maxAge, with one boundary moved
IsOld_inclusive(e, at, maxAge) == (at - e.timestamp) >= maxAge

\* storage[productId].timestamp && (now - storage[productId].timestamp) >
\* maxAge; the timestamp is the Date.now() of storeProductAddons, never 0
IsOld(e, at, maxAge) == (at - e.timestamp) > maxAge

\* clearOldAddons(maxAge): delete the old entries, and setItem only when
\* one was deleted
clearOldAddons(t, maxAge) ==
  /\ cleaned' =
       [cleaned EXCEPT ![t] =
          \E i \in DOMAIN storage[t] : IsOld(storage[t][i], now, maxAge)]
  /\ storage' =
       [storage EXCEPT ![t] =
          IF cleaned'[t]
            THEN SelectSeq(@, LAMBDA e : ~IsOld(e, now, maxAge))
            ELSE @]
  /\ UNCHANGED <<now, cart, marker, pageVars, pc, hasProcessed, isProcessing,
                 productAddonMap, local, viewInit, calls, displays, rows,
                 cartAddons, serverVars>>

\* the maxAge arguments: the default and a short one
MaxAges == {MAX_AGE, TickMs}

\* when the stored selections were written, relative to the start
PurgeTimestamps ==
  {0 - MAX_AGE - 1, 0 - MAX_AGE, TickMs - MAX_AGE, 0 - TickMs, 0}

PurgeStorages ==
  {<<>>} \cup
  { <<Entry("P1", "P1", Undefined, <<Addon("Gift Wrap", 5000)>>, ts)>> :
      ts \in PurgeTimestamps } \cup
  { <<Entry("P1", "P1", Undefined, <<Addon("Gift Wrap", 5000)>>, ts1),
      Entry("P2", "P2", "V2", <<Addon("Ribbon", 2450)>>, ts2)>> :
      ts1 \in PurgeTimestamps, ts2 \in PurgeTimestamps }

PurgeInit ==
  /\ InitWith({<<>>}, PurgeStorages)
  /\ \A t \in Tabs \ ProductTabs : storage[t] = <<>>

PurgeNext ==
  \/ Tick
  \/ \E t \in ProductTabs, maxAge \in MaxAges : clearOldAddons(t, maxAge)

SpecPurge == PurgeInit /\ [][PurgeNext]_vars

\* ------------------------------------------------------------------------
\* Server: the add-on routes of server.js over the database object
\* ------------------------------------------------------------------------
\* required || false
OrFalse(v) == IF v \in {Undefined, "false", ""} THEN "false" ELSE v

Reply(route, status, body) ==
  [route |-> route, status |-> status, body |-> body]

\* the addonData that app.post('/api/addons') builds from the request body
AddonData(body) ==
  [productId |-> body.productId,
   name |-> body.name,
   price |-> parseFloat(body.price),
   type |-> body.type,
   required |-> OrFalse(body.required),
   options |-> body.options,
   shop |-> IF body.shop = <<>> THEN DefaultShop ELSE body.shop]

PostAddon(body) ==
  /\ StoredCount(db) < MaxAddons
  /\ LET r == createAddon(db, AddonData(body))
     IN  /\ db' = r.db
         /\ response' =
              IF r.error
                THEN Reply("POST", 500,
                           [error |-> "Failed to create addon"])
                ELSE Reply("POST", 200, r.result)
  /\ UNCHANGED storefrontVars

\* app.get('/api/addons/:productId')
GetAddons(pid, shop) ==
  /\ response' = Reply("GET", 200, getAddons(db, pid, shop))
  /\ UNCHANGED <<db, storefrontVars>>

\* app.put('/api/addons/:id')
PutAddon(id, body) ==
  /\ LET r == updateAddon(db, id, body)
     IN  /\ db' = r.db
         /\ response' =
              IF r.error
                THEN Reply("PUT", 500,
                           [error |-> "Failed to update addon"])
                ELSE Reply("PUT", 200, r.result)
  /\ UNCHANGED storefrontVars

\* app.delete('/api/addons/:id')
DeleteAddon(id) ==
  /\ LET r == deleteAddon(db, id)
     IN  /\ db' = r.db
         /\ response' =
              IF r.error
                THEN Reply("DELETE", 500,
                           [error |-> "Failed to delete addon"])
                ELSE Reply("DELETE", 200, [success |-> TRUE])
  /\ UNCHANGED storefrontVars

\* requests of the admin interface
CatalogProductIds == {<<"a">>, <<"a", "-", "b">>}

CatalogShops == {<<"c">>, <<"b", "-", "c">>}

AddonBodies ==
  { [productId |-> <<"a", "-", "b">>, shop |-> <<"c">>, name |-> "Gift Wrap",
     price |-> JsonNumber(5000), type |-> "checkbox", required |-> "true",
     options |-> JsonNull],
    [productId |-> <<"a">>, shop |-> <<"b", "-", "c">>, name |-> "Size",
     price |-> JsonNumber(0), type |-> "dropdown", required |-> "false",
     options |-> JsonArray(<<[label |-> "Large", value |-> "L",
                              price |-> 1500]>>)] }

UpdateBodies ==
  { [name |-> "Bow", price |-> Num(750)],
    [active |-> "true"],
    [productId |-> <<"a">>] }

AddonIds == 1..(MaxAddons + 1)

\* a freshly started server over either database class; no storefront
CatalogInit ==
  /\ StorefrontInit({<<>>}, {<<>>})
  /\ db \in {NewDatabase(b) : b \in Backends}
  /\ response = NoResponse

CatalogNext ==
  \/ \E body \in AddonBodies : PostAddon(body)
  \/ \E pid \in CatalogProductIds, shop \in CatalogShops : GetAddons(pid, shop)
  \/ \E id \in AddonIds, body \in UpdateBodies : PutAddon(id, body)
  \/ \E id \in AddonIds : DeleteAddon(id)

SpecCatalog == CatalogInit /\ [][CatalogNext]_vars

\* the catalogue requests, and updates whose body carries an id
IdPatches == {[id |-> 1]}

IdsNext ==
  \/ \E body \in AddonBodies : PostAddon(body)
  \/ \E pid \in CatalogProductIds, shop \in CatalogShops : GetAddons(pid, shop)
  \/ \E id \in AddonIds, body \in UpdateBodies \cup IdPatches :
       PutAddon(id, body)
  \/ \E id \in AddonIds : DeleteAddon(id)

SpecIds == CatalogInit /\ [][IdsNext]_vars

\* ------------------------------------------------------------------------
\* Creation requests, valid and invalid, against the two versions of
\* POST /api/addons: server.js over the database classes, and the later
\* server (src/unnamed/part_000) over database-debug.js.
\* ------------------------------------------------------------------------
\* database-debug.js createAddon: return { id: 1, ...addonData }
DebugDatabase_createAddon(d, addonData) ==
  [db |-> d, error |-> FALSE, result |-> Merge([id |-> 1], addonData)]

BadRequest(message) == Reply("POST", 400, [error |-> message])

\* app.post('/api/addons') of the later server: the presence checks, then
\* db.createAddon of database-debug.js
PostAddonValidated(body) ==
  /\ response' =
       IF body.productId \in {UndefinedText, <<>>}
         THEN BadRequest("Product ID is required")
       ELSE IF body.name \in {Undefined, ""}
         THEN BadRequest("Add-on name is required")
       ELSE IF body.price.json = "undefined"
         THEN BadRequest("Price is required")
       ELSE IF body.type \in {Undefined, ""}
         THEN BadRequest("Add-on type is required")
       ELSE Reply("POST", 200,
                  DebugDatabase_createAddon(db, AddonData(body)).result)
  /\ db' = DebugDatabase_createAddon(db, AddonData(body)).db
  /\ UNCHANGED storefrontVars

ValidBody ==
  [productId |-> <<"a">>, shop |-> <<"c">>, name |-> "Gift Wrap",
   price |-> JsonNumber(5000), type |-> "checkbox", required |-> "false",
   options |-> JsonNull]

\* the valid body, and the body with one member absent or another price
CreateBodies ==
  {ValidBody,
   [ValidBody EXCEPT !.productId = UndefinedText],
   [ValidBody EXCEPT !.name = Undefined],
   [ValidBody EXCEPT !.type = Undefined],
   [ValidBody EXCEPT !.price = JsonAbsent],
   [ValidBody EXCEPT !.price = JsonString(<<"x">>)],
   [ValidBody EXCEPT !.price = JsonString(<<"1", "2">>)],
   [ValidBody EXCEPT !.price = JsonString(<<"-", "5">>)],
   [ValidBody EXCEPT !.price = JsonNumber(0 - 5000)]}

CreateInit == CatalogInit

CreateNext ==
  \/ \E body \in CreateBodies : PostAddon(body)
  \/ \E body \in CreateBodies : PostAddonValidated(body)

SpecCreate == CreateInit /\ [][CreateNext]_vars

\* ------------------------------------------------------------------------
\* Properties
\* ------------------------------------------------------------------------
Active(t) == pc[t] \notin {"none", "done"}

Mutations(t) == {i \in DOMAIN calls[t] : calls[t][i].op \in {"add", "update"}}

Fetches(t) == {i \in DOMAIN calls[t] : calls[t][i].op = "fetch"}

RECURSIVE SurrogateQuantity(_)
SurrogateQuantity(c) ==
  IF c = <<>> THEN 0
  ELSE (IF IsHiddenItem(c[1]) THEN c[1].quantity ELSE 0)
         + SurrogateQuantity(Tail(c))

\* sum of totalPrice over the selections matched to the lines of cart c
\* (a surrogate line matches nothing)
MatchedTotal(c, addonData) == TotalAddonPrice(c, addonData)

\* this step writes the processed marker of tab t
MarkerWritten(t) == marker[t] = NoMarker /\ marker'[t] # NoMarker

Failed(t) ==
  \E i \in DOMAIN calls[t] : calls[t][i].result \in {"status", "throw"}

C2_AtMostOneSurrogate == Cardinality(HiddenLines(cart)) <= 1

\* both tabs have added the surrogate to the same cart
C2_Witness ==
  /\ \A t \in Tabs :
       \E i \in DOMAIN calls[t] :
         calls[t][i].op = "add" /\ calls[t][i].result = "ok"
  /\ Cardinality(HiddenLines(cart)) = 1

\* C3: a page view whose init runs less than 5 seconds after the time in
\* the processed marker issues no /cart/add.js and no /cart/update.js call.
C3_RecentViewNoMutation ==
  \A t \in Tabs :
    (/\ page[t] = "cart"
     /\ viewInit[t].marker # NoMarker
     /\ viewInit[t].at - viewInit[t].marker < 5000)
      => Mutations(t) = {}

\* a page view inside the window has finished although the cart's surrogate
\* quantity is not the one its selections need
C3_Witness ==
  \E t \in Tabs :
    /\ pc[t] = "done"
    /\ page[t] = "cart"
    /\ viewInit[t].marker # NoMarker
    /\ viewInit[t].at - viewInit[t].marker < 5000
    /\ MatchedTotal(cart, storage[t]) > 0
    /\ SurrogateQuantity(cart) * HIDDEN_PRODUCT_PRICE
         # MatchedTotal(cart, storage[t])

\* C4: with the selection of one 5.00 checkbox add-on stored for P1 by the
\* product page, P1 in the cart and no surrogate line, a sync whose cart
\* fetch succeeds issues an add-line call for the surrogate with quantity 500.
C4_SelectedAddonIsCharged ==
  \A t \in Tabs :
    (/\ pc[t] = "done"
     /\ page[t] = "cart"
     /\ local[t].fetched
     /\ Len(storage[t]) = 1
     /\ storage[t][1].key = "P1"
     /\ storage[t][1].addons = <<Addon("Gift Wrap", 5000)>>
     /\ storage[t][1].totalPrice = 5000
     /\ \E i \in DOMAIN local[t].cart : local[t].cart[i].product_id = "P1"
     /\ HiddenLines(local[t].cart) = {})
      => \E i \in DOMAIN calls[t] :
           /\ calls[t][i].op = "add"
           /\ calls[t][i].target[1] = HIDDEN_VARIANT_ID
           /\ calls[t][i].quantity = 500

\* C5: a page view in which a cart call failed has written no processed
\* marker, and the next cart page view of the tab enters Syncing.
C5_MarkerOnlyOnSuccess ==
  /\ [](\A t \in Tabs : Failed(t) => marker[t] = NoMarker)
  /\ [][\A t \in Tabs :
          (Failed(t) /\ Idle(t) /\ page'[t] = "cart" /\ Active(t)')
            => pc'[t] = "syncTimer"]_vars

\* a page view has ended after its quantity update failed
C5_Witness ==
  \E t \in Tabs :
    /\ pc[t] = "done"
    /\ marker[t] = NoMarker
    /\ \E i \in DOMAIN calls[t] :
         calls[t][i].op = "update" /\ calls[t][i].result \in {"status", "throw"}

\* C6: a failed cart call is the last cart call of its page view, and no
\* price annotation runs in that page view.
C6_FailureAborts ==
  \A t \in Tabs :
    \A i \in DOMAIN calls[t] :
      calls[t][i].result \in {"status", "throw"}
        => i = Len(calls[t]) /\ displays[t] = <<>>

\* a page view has ended after its add-line call failed
C6_Witness ==
  \E t \in Tabs :
    /\ pc[t] = "done"
    /\ \E i \in DOMAIN calls[t] :
         calls[t][i].op = "add" /\ calls[t][i].result \in {"status", "throw"}

\* C7: a sync that computes neededTotal = 0 issues no cart-mutation call,
\* and no step of that page view changes the cart.
C7_ZeroTotalNoMutation ==
  /\ [](\A t \in Tabs :
          (local[t].fetched /\ local[t].totalAddonPrice = 0)
            => Mutations(t) = {})
  /\ [][\A t \in Tabs :
          (/\ local'[t].fetched
           /\ local'[t].totalAddonPrice = 0
           /\ pc'[t] # pc[t])
            => cart' = cart]_vars

\* a sync over stored selections found neededTotal = 0 and has left a
\* surrogate line in the cart
C7_Witness ==
  \E t \in Tabs :
    /\ pc[t] = "done"
    /\ local[t].fetched
    /\ local[t].totalAddonPrice = 0
    /\ Len(storage[t]) > 0
    /\ SurrogateQuantity(cart) > 0
    /\ SurrogateQuantity(local[t].cart) = SurrogateQuantity(cart)

\* C8: for a neededTotal of a whole number of pence the computed
\* neededQuantity is that number of pence; 1.95 gives 195, 5.95 gives 595.
C8_QuantityIsPence ==
  \A t \in Tabs :
    local[t].fetched =>
      /\ local[t].totalAddonPrice % HIDDEN_PRODUCT_PRICE = 0
           => local[t].neededQuantity * HIDDEN_PRODUCT_PRICE
                = local[t].totalAddonPrice
      /\ local[t].totalAddonPrice = 1950 => local[t].neededQuantity = 195
      /\ local[t].totalAddonPrice = 5950 => local[t].neededQuantity = 595

\* one tab has computed the quantity for 1.95, the other for 3.50 + 2.45
C8_Witness ==
  \E t, u \in Tabs :
    /\ local[t].fetched
    /\ local[t].totalAddonPrice = 1950
    /\ local[t].neededQuantity = 195
    /\ local[u].fetched
    /\ local[u].totalAddonPrice = 3500 + 2450
    /\ local[u].neededQuantity = 595

\* C9: in a sync with neededTotal > 0, no surrogate line in the fetched cart
\* gives exactly one add-line call with neededQuantity, a surrogate line of
\* another quantity gives exactly one quantity-update call on its key with
\* neededQuantity, and a surrogate line of that quantity gives no cart call
\* and a written marker.
C9_SyncBranches ==
  \A t \in Tabs :
    (local[t].fetched /\ local[t].totalAddonPrice > 0) =>
      LET c == local[t].cart
          h == HiddenLines(c)
          q == local[t].neededQuantity
          m == Mutations(t)
      IN  /\ h = {} =>
                \E i \in DOMAIN calls[t] :
                  /\ m = {i}
                  /\ calls[t][i].op = "add"
                  /\ calls[t][i].quantity = q
          /\ (h # {} /\ c[MinOf(h)].quantity # q) =>
                \E i \in DOMAIN calls[t] :
                  /\ m = {i}
                  /\ calls[t][i].op = "update"
                  /\ calls[t][i].target = c[MinOf(h)].key
                  /\ calls[t][i].quantity = q
          /\ (h # {} /\ c[MinOf(h)].quantity = q) =>
                /\ m = {}
                /\ marker[t] # NoMarker

\* a page view has updated the surrogate line to its needed quantity
C9_Witness ==
  \E t \in Tabs :
    /\ pc[t] = "done"
    /\ local[t].totalAddonPrice > 0
    /\ SurrogateQuantity(local[t].cart) # local[t].neededQuantity
    /\ \E i \in DOMAIN calls[t] :
         calls[t][i].op = "update" /\ calls[t][i].result = "ok"
    /\ SurrogateQuantity(cart) = local[t].neededQuantity

Terminates == \A t \in Tabs : Active(t) ~> pc[t] = "done"

\* C10: every cart page view reaches Done, and issues at most one cart fetch
\* and at most one cart-mutation call.
C10_OneSyncAndDone ==
  /\ [](\A t \in Tabs :
          Cardinality(Mutations(t)) <= 1 /\ Cardinality(Fetches(t)) <= 1)
  /\ Terminates

\* a page view has finished after its one cart write
C10_Witness ==
  \E t \in Tabs :
    /\ pc[t] = "done"
    /\ marker[t] # NoMarker
    /\ Cardinality(Mutations(t)) = 1
    /\ Cardinality(Fetches(t)) = 1

\* the page view of tab t has made a successful cart write
Wrote(t) ==
  \E i \in DOMAIN calls[t] :
    calls[t][i].op \in {"add", "update"} /\ calls[t][i].result = "ok"

MatchedVariants(c, addonData) ==
  {c[i].variant_id : i \in {j \in DOMAIN c :
                              findAddonDataForCartItem(c[j], addonData) # 0}}

RecentView(t) ==
  /\ page[t] = "cart"
  /\ viewInit[t].marker # NoMarker
  /\ viewInit[t].at - viewInit[t].marker < RecentWindowMs

SelectedControls(t) ==
  {a \in DOMAIN ControlsOf(productId[t]) : ElementValue(t, a) # ""}

\* the selection stored for the product of the page shown in tab t
StoredSelection(t) == storage[t][KeyIndex(storage[t], productId[t])]

\* C13: after every change on a product page, the selection stored for the
\* product has totalPrice equal to the sum of the prices of its addons, and
\* its addons are exactly the currently selected add-ons of the page.
C13_StoredSelectionIsCurrent ==
  \A t \in ProductTabs :
    (page[t] = "product" /\ productAddons[t] # EmptyMap) =>
      LET e == StoredSelection(t)
      IN  /\ e.totalPrice = SumPrices(e.addons)
          /\ Len(e.addons) = Cardinality(SelectedControls(t))
          /\ {e.addons[i].name : i \in DOMAIN e.addons}
               = {ControlsOf(productId[t])[a].name : a \in SelectedControls(t)}

StoredKeys(st) == {st[i].key : i \in DOMAIN st}

EntryOf(st, k) == st[KeyIndex(st, k)]

ByVariant(line, addonData) ==
  {j \in DOMAIN addonData : addonData[j].variantId = line.variant_id}

\* entries of addonData whose recorded product id is that of the cart line
ByProduct(line, addonData) ==
  {j \in DOMAIN addonData : addonData[j].productId = line.product_id}

\* the selection that the sync of tab t has attached to variant v is one of
\* the entries js of its storage
AttachedFrom(t, v, js) ==
  /\ v \in DOMAIN productAddonMap[t]
  /\ \E j \in js :
       /\ productAddonMap[t][v].addonPrice = storage[t][j].totalPrice
       /\ productAddonMap[t][v].addons = storage[t][j].addons

\* C15: for every non-surrogate line of the fetched cart, the selection the
\* sync attaches to it is one whose recorded variant id equals the line's
\* variant id when such a selection is stored, else one whose recorded
\* product id equals the line's product id, else none.
C15_MatchPriority ==
  \A t \in Tabs :
    (local[t].fetched /\ Len(storage[t]) > 0) =>
      \A i \in DOMAIN local[t].cart :
        LET line == local[t].cart[i]
            byV == ByVariant(line, storage[t])
            byP == ByProduct(line, storage[t])
        IN  ~IsHiddenItem(line) =>
              IF byV # {} THEN AttachedFrom(t, line.variant_id, byV)
              ELSE IF byP # {} THEN AttachedFrom(t, line.variant_id, byP)
              ELSE line.variant_id \notin DOMAIN productAddonMap[t]

\* the first stored selection matches the line of P1 by product id only, the
\* second by variant id, and the sync has attached the second
C15_Witness ==
  \E t \in Tabs :
    /\ local[t].fetched
    /\ Len(storage[t]) = 2
    /\ storage[t][1].productId = "P1"
    /\ storage[t][1].variantId # "V1"
    /\ storage[t][2].variantId = "V1"
    /\ "V1" \in DOMAIN productAddonMap[t]
    /\ productAddonMap[t]["V1"].addonPrice = storage[t][2].totalPrice

\* the stored selections that are not older than the TTL at time at
Unexpired(addonData, at) ==
  SelectSeq(addonData, LAMBDA e : at - e.timestamp <= MAX_AGE)

DefinitionFields ==
  {"productId", "shop", "name", "price", "type", "required", "options"}

\* record rec carries the definition def in every field of DefinitionFields
SameDefinition(rec, def) == \A f \in DefinitionFields : rec[f] = def[f]

\* C17: when POST /api/addons has created an add-on, the list of its product
\* and shop contains a record whose productId, shop, name, price, type,
\* required and options equal those passed to createAddon.
C17_CreateListRoundTrip ==
  [][\A body \in AddonBodies :
       (PostAddon(body) /\ response'.status = 200) =>
         LET def == AddonData(body)
             listed == getAddons(db', def.productId, def.shop)
         IN  \E i \in DOMAIN listed : SameDefinition(listed[i], def)]_vars

\* the stored add-ons that a request for id names
Named(d, id) == {a \in StoredAddons(d) : a.id = id}

\* active = false in the Map, active = 0 in the table
Inactive(a) == a.active \in {"false", "0"}

\* the ids of the records that list(pid, shop) returns
ListedIds(d, pid, shop) ==
  {getAddons(d, pid, shop)[i].id : i \in DOMAIN getAddons(d, pid, shop)}

\* C18: after DELETE /api/addons/:id of a stored add-on, the list of its
\* product and shop has no record with that id; deleting it once more
\* raises no error and leaves the database as it is.
C18_SoftDeleteOnce ==
  [][\A id \in AddonIds :
       (DeleteAddon(id) /\ Named(db, id) # {}) =>
         /\ response'.status = 200
         /\ \A a \in Named(db, id) :
              id \notin ListedIds(db', a.productId, a.shop)
         /\ ~deleteAddon(db', id).error
         /\ deleteAddon(db', id).db = db'
         /\ (\A a \in Named(db, id) : Inactive(a)) => db' = db]_vars

\* an add-on has been deleted by the last request and is stored inactive
C18_Witness ==
  /\ response.route = "DELETE"
  /\ response.status = 200
  /\ \E a \in StoredAddons(db) : Inactive(a)

\* the records that list(pid, shop) returns
Listed(d, pid, shop) ==
  {getAddons(d, pid, shop)[i] : i \in DOMAIN getAddons(d, pid, shop)}

\* C19: list(productId, shop) returns exactly the active stored records
\* whose productId and shop equal the arguments, whatever was created,
\* updated and deleted before.
C19_ListIsExact ==
  \A pid \in CatalogProductIds, shop \in CatalogShops :
    Listed(db, pid, shop)
      = {a \in StoredAddons(db) :
           ~Inactive(a) /\ a.productId = pid /\ a.shop = shop}

\* C20: PUT /api/addons/:id with an id that names no stored add-on answers
\* 404 and leaves the database unchanged; with a stored id it answers the
\* stored record merged with the patch, and that merged record replaces
\* the stored one while every other record stays as it was.
C20_UpdateMergesOrNotFound ==
  [][\A id \in AddonIds, body \in UpdateBodies :
       PutAddon(id, body) =>
         IF Named(db, id) = {}
           THEN response'.status = 404 /\ db' = db
           ELSE \E a \in Named(db, id) :
                  /\ response'.status = 200
                  /\ response'.body = Merge(a, body)
                  /\ StoredAddons(db')
                       = (StoredAddons(db) \ {a}) \cup {Merge(a, body)}]_vars

\* a definition that create has to reject: productId, name, price or type
\* is missing, or the price does not parse as a non-negative number
InvalidDefinition(body) ==
  \/ body.productId = UndefinedText
  \/ body.name = Undefined
  \/ body.type = Undefined
  \/ body.price.json = "undefined"
  \/ parseFloat(body.price).nan
  \/ parseFloat(body.price).n < 0

\* C21: POST /api/addons answers 400 to every definition in which
\* productId, name, price or type is missing or whose price does not parse
\* as a non-negative number, and stores no record for it.
C21_InvalidRejected ==
  [][\A body \in CreateBodies :
       ((PostAddon(body) \/ PostAddonValidated(body))
          /\ InvalidDefinition(body)) =>
         response'.status = 400 /\ db' = db]_vars

\* the number of stored records that carry id
CountWithId(d, id) ==
  IF d.backend = "memory" THEN Cardinality(Positions(d, id))
  ELSE Cardinality(RowsWithId(d, id))

\* C22: no two stored add-on records share an id, whatever was created,
\* updated and deleted before.
C22_IdsUnique == \A id \in AddonIds : CountWithId(db, id) <= 1

\* the places <<bucket, index>> (<<1, row>> in the table) that hold a record
Slots(d) ==
  IF d.backend = "memory"
    THEN {p \in (DOMAIN d.addons) \X (1..d.addonCounter) :
            p[2] \in DOMAIN d.addons[p[1]].list}
    ELSE {1} \X DOMAIN d.table

RecordAt(d, p) ==
  IF d.backend = "memory" THEN d.addons[p[1]].list[p[2]] ELSE d.table[p[2]]

InactiveFlag(d) == IF d.backend = "memory" THEN "false" ELSE "0"

\* C23: no request removes a record (every place that holds a record keeps
\* holding one), and DELETE /api/addons/:id changes nothing but the active
\* flag of the record with that id.
C23_NeverRemoved ==
  [][/\ Slots(db) \subseteq Slots(db')
     /\ response'.route = "DELETE" =>
          \A id \in AddonIds :
            DeleteAddon(id) =>
              /\ Slots(db') = Slots(db)
              /\ \A p \in Slots(db) :
                   \/ RecordAt(db', p) = RecordAt(db, p)
                   \/ /\ RecordAt(db, p).id = id
                      /\ RecordAt(db', p)
                           = [RecordAt(db, p) EXCEPT
                                !.active = InactiveFlag(db)]]_vars

\* the last request deleted one of two stored add-ons; the other is active
C23_Witness ==
  /\ response.route = "DELETE"
  /\ response.status = 200
  /\ \E p, q \in Slots(db) :
       /\ Inactive(RecordAt(db, p))
       /\ ~Inactive(RecordAt(db, q))

\* C29: a soft-deleted add-on stays out of every list result: a record that
\* is stored inactive is in no list after the next request, whichever it is.
C29_DeletedStaysHidden ==
  [][\A p \in Slots(db) :
       Inactive(RecordAt(db, p)) =>
         \A pid \in CatalogProductIds, shop \in CatalogShops :
           RecordAt(db', p).id \notin ListedIds(db', pid, shop)]_vars

\* C24: when init() runs on a page that satisfies the cart or the checkout
\* heuristics of the PageDetector, the page view is a cart page view of the
\* CartPageHandler (CartPageHandler.init has run for it).
C24_CartAndCheckoutReconciled ==
  [][\A t \in ProductTabs, f \in Pages :
       (init(t, f) /\ (isCartPage(f) \/ isCheckoutPage(f))) =>
         CartPageInit(t)]_vars

\* the inputs of the form of tab t that carry an add-on / the total
NamedInputs(t) ==
  SelectSeq(form[t], LAMBDA input : input.name # "_Add-ons Total")

TotalInputs(t) ==
  SelectSeq(form[t], LAMBDA input : input.name = "_Add-ons Total")

\* C25: on a product page the hidden properties[...] inputs of the
\* add-to-cart form are exactly one input per currently selected add-on
\* (none for a deselected add-on, no duplicates) plus at most one
\* '_Add-ons Total' input whose value is the current total.
C25_InputsAreSelection ==
  \A t \in ProductTabs :
    page[t] = "product" =>
      LET sel == SelectedAddons(productAddons[t], DOMAIN productAddons[t])
      IN  /\ Len(NamedInputs(t)) = Len(sel)
          /\ \A i \in DOMAIN sel :
               \E j \in DOMAIN NamedInputs(t) :
                 NamedInputs(t)[j] = AddonInput(sel[i])
          /\ Len(TotalInputs(t)) <= 1
          /\ \A j \in DOMAIN TotalInputs(t) :
               TotalInputs(t)[j].value = <<"", toFixed2(SumPrices(sel))>>

Contained(addon, text) ==
  \/ addon.name \in text.words
  \/ addon.value \in text.words
  \/ includesPriceToken(text, addon.price)

ContainedCount(productData, text) ==
  Cardinality({j \in DOMAIN productData.addons :
                 Contained(productData.addons[j], text)})

Accepted(productData, text) ==
  /\ ContainedCount(productData, text) >= 1
  /\ 10 * ContainedCount(productData, text) >= 7 * Len(productData.addons)

\* C27: for a cart row that no stored key identifies, the fuzzy fallback
\* of getCartAddons yields a selection if and only if some stored selection
\* has at least one and at least 70% of its add-ons contained in the row's
\* text; what it yields are the add-ons and the totalPrice of such a stored
\* selection, and below the threshold it yields nothing.
C27_FuzzyThreshold ==
  [][\A t \in ProductTabs, class \in StorageClasses :
       getCartAddons(t, class) =>
         \A i \in DOMAIN rows[t] :
           KeyIndex(storage[t], extractProductIdFromCartItem(rows[t][i])) = 0
             => LET found == {k \in DOMAIN cartAddons'[t] :
                                cartAddons'[t][k].item = i}
                    passing == {e \in DOMAIN storage[t] :
                                  Accepted(storage[t][e], rows[t][i].text)}
                IN  /\ (found # {}) <=> (passing # {})
                    /\ \A k \in found :
                         \E e \in passing :
                           /\ cartAddons'[t][k].addons = storage[t][e].addons
                           /\ cartAddons'[t][k].totalPrice
                                = storage[t][e].totalPrice]_vars

\* the stored selections of tab t whose age at time at exceeds maxAge
Expired(t, at, maxAge) ==
  {i \in DOMAIN storage[t] : at - storage[t][i].timestamp > maxAge}

\* C28: clearOldAddons(maxAge) removes exactly the stored selections whose
\* age (now minus timestamp) exceeds maxAge and leaves every other stored
\* selection unchanged and in place; it writes sessionStorage only when a
\* selection was removed.
C28_PurgeExact ==
  [][\A t \in ProductTabs, maxAge \in MaxAges :
       clearOldAddons(t, maxAge) =>
         LET kept == DOMAIN storage[t] \ Expired(t, now, maxAge)
         IN  /\ Len(storage'[t]) = Cardinality(kept)
             /\ \A i \in kept :
                  storage'[t][Cardinality({j \in kept : j <= i})]
                    = storage[t][i]
             /\ cleaned'[t] <=> (Expired(t, now, maxAge) # {})]_vars

\* a purge has removed a stored selection and kept another one
C28_Witness ==
  \E t \in ProductTabs :
    /\ cleaned[t]
    /\ storage[t] # <<>>
    /\ now > 0

\* the required checkbox add-ons rendered on the product page of tab t
RequiredControls(t) ==
  {a \in DOMAIN ControlsOf(productId[t]) :
     /\ ControlsOf(productId[t])[a].type = "checkbox"
     /\ ControlsOf(productId[t])[a].required}

\* C30: on a product page, after rendering and after every change to the
\* other controls, each required checkbox add-on is part of the selection
\* stored for the product with its price, the stored totalPrice covers it,
\* and the add-to-cart form carries its line item property.
C30_RequiredAlwaysSelected ==
  \A t \in ProductTabs :
    page[t] = "product" =>
      \A a \in RequiredControls(t) :
        LET control == ControlsOf(productId[t])[a]
        IN  /\ KeyIndex(storage[t], productId[t]) # 0
            /\ \E i \in DOMAIN StoredSelection(t).addons :
                 /\ StoredSelection(t).addons[i].name = control.name
                 /\ StoredSelection(t).addons[i].price = control.price
            /\ StoredSelection(t).totalPrice >= control.price
            /\ \E j \in DOMAIN form[t] : form[t][j].name = control.name

====
